---- MODULE Spec2Model ----
(***************************************************************************)
(* Plant disease detector backend: the /api/detect handler (main.py), the  *)
(* DiseaseDetector (models/disease_detector.py) and the ImageProcessor     *)
(* (utils/image_processor.py).                                             *)
(*                                                                         *)
(* Numbers: a probability is an integer level p standing for p / MaxProb;  *)
(* a tensor value is the numerator v of v / 255; brightness and Laplacian  *)
(* variance are integers on the scale the code compares them on.           *)
(***************************************************************************)
EXTENDS Integers, Sequences, FiniteSets, TLC

\* ------------------------------------------------------------------ bounds

\* Number of concurrent /api/detect requests.
NumRequests == 2

\* Probability levels of a classifier output entry: 0..MaxProb.
MaxProb == 1

\* How far around each threshold the image metrics are drawn.
Margin == 1

\* --------------------------------------------------- DiseaseDetector data

class_names ==
  << "Healthy", "Bacterial Spot", "Early Blight", "Late Blight", "Leaf Mold",
     "Septoria Leaf Spot", "Spider Mites", "Target Spot",
     "Yellow Leaf Curl Virus", "Mosaic Virus" >>

NumClasses == Len(class_names)

ClassNameSet == { class_names[i] : i \in 1..NumClasses }

recommendations ==
  [ n \in ClassNameSet |->
    CASE n = "Healthy" ->
           << "Your plant appears healthy! Continue current care practices.",
              "Maintain proper watering and ensure good air circulation.",
              "Monitor regularly for any changes." >>
      [] n = "Bacterial Spot" ->
           << "Remove affected leaves and dispose of them properly.",
              "Apply copper-based fungicide spray.",
              "Improve air circulation around plants.",
              "Water at soil level to avoid wetting leaves.",
              "Consider using drip irrigation." >>
      [] n = "Early Blight" ->
           << "Remove and destroy infected plant debris.",
              "Apply fungicide containing chlorothalonil or copper.",
              "Ensure proper plant spacing for air circulation.",
              "Water early in the day so leaves dry quickly.",
              "Consider crop rotation next season." >>
      [] n = "Late Blight" ->
           << "Remove affected plants immediately to prevent spread.",
              "Apply preventive fungicide spray (copper or mancozeb).",
              "Ensure good drainage and avoid overhead watering.",
              "Increase air circulation between plants.",
              "Monitor weather conditions - disease spreads in cool, wet weather." >>
      [] n = "Leaf Mold" ->
           << "Improve greenhouse ventilation if growing indoors.",
              "Reduce humidity around plants.",
              "Remove infected leaves immediately.",
              "Apply fungicide spray in the evening.",
              "Consider resistant varieties for future planting." >>
      [] n = "Septoria Leaf Spot" ->
           << "Remove infected leaves from bottom of plant first.",
              "Apply organic fungicide or neem oil spray.",
              "Mulch around plants to prevent soil splash.",
              "Water at ground level only.",
              "Stake plants to improve air circulation." >>
      [] n = "Spider Mites" ->
           << "Spray plants with water to dislodge mites.",
              "Apply insecticidal soap or neem oil.",
              "Increase humidity around plants.",
              "Introduce beneficial insects like ladybugs.",
              "Remove heavily infested leaves." >>
      [] n = "Target Spot" ->
           << "Remove infected plant debris immediately.",
              "Apply preventive fungicide treatment.",
              "Improve air circulation and reduce humidity.",
              "Avoid overhead watering.",
              "Consider soil sterilization for severe cases." >>
      [] n = "Yellow Leaf Curl Virus" ->
           << "Remove infected plants to prevent spread.",
              "Control whitefly populations (vector of virus).",
              "Use reflective mulch to deter insects.",
              "Plant virus-resistant varieties.",
              "Monitor and remove weeds that may harbor the virus." >>
      [] OTHER ->
           << "Remove and destroy infected plants immediately.",
              "Disinfect tools between plants.",
              "Control aphid populations (virus vector).",
              "Wash hands thoroughly when handling plants.",
              "Plant virus-resistant cultivars in future." >> ]

\* The default of self.recommendations.get(disease_name, [...]).
DefaultRecommendations ==
  << "Consult with a plant pathologist for specific treatment advice.",
     "Monitor the plant closely for changes.",
     "Consider isolating the plant if symptoms worsen." >>

\* The recommendations of the except branch of predict.
FallbackRecommendations ==
  << "Unable to analyze image. Please try again with a clearer image.",
     "Ensure the image shows a clear view of plant leaves.",
     "Contact support if the problem persists." >>

RecommendationsFor(name) ==
  IF name \in DOMAIN recommendations
  THEN recommendations[name]
  ELSE DefaultRecommendations

\* ------------------------------------------------ DiseaseDetector.predict

\* One comparison of np.argmax's scan with the opposite tie rule: a later
\* equal value replaces the best so far.
ArgMaxStepLast(v, i, best) ==
  IF v[i] >= v[best] THEN i ELSE best

\* One comparison of np.argmax's scan: a later value replaces the best so
\* far only when strictly greater, so the first maximum wins.
ArgMaxStep(v, i, best) ==
  IF v[i] > v[best] THEN i ELSE best

RECURSIVE ArgMaxFrom(_, _, _)
ArgMaxFrom(v, i, best) ==
  IF i > Len(v) THEN best ELSE ArgMaxFrom(v, i + 1, ArgMaxStep(v, i, best))

\* np.argmax(predictions[0]), 1-based.
ArgMax(v) == ArgMaxFrom(v, 2, 1)

\* The dict comprehension of "all_predictions".
AllPredictions(v) ==
  [ n \in ClassNameSet |->
      v[CHOOSE i \in 1..NumClasses : class_names[i] = n] ]

\* The dict returned by the except branch of predict.
FallbackResult ==
  [ disease |-> "Analysis Failed",
    confidence |-> 0,
    recommendations |-> FallbackRecommendations ]

\* The dict returned by the try branch of predict.
SuccessResult(v, idx) ==
  [ disease |-> class_names[idx],
    confidence |-> v[idx],
    recommendations |-> RecommendationsFor(class_names[idx]),
    all_predictions |-> AllPredictions(v) ]

\* The try/except of predict, given what self.model.predict did: it raised,
\* or it returned the vector v (of the model's output length). Indexing
\* class_names or predictions[0] out of range raises IndexError, which the
\* except branch turns into the fallback.
PredictOutcome(raised, v) ==
  IF raised THEN FallbackResult
  ELSE LET idx == ArgMax(v) IN
       IF idx > NumClasses THEN FallbackResult
       ELSE IF Len(v) < NumClasses THEN FallbackResult
       ELSE SuccessResult(v, idx)

\* --------------------------------------------------------- ImageProcessor

\* min_size of validate_image_quality.
min_size == 100
\* mean_brightness < 30 is too dark.
DarkLimit == 30
\* mean_brightness > 220 is too bright.
BrightLimit == 220
\* laplacian_var < 100 is blurry.
BlurLimit == 100
\* target_size of ImageProcessor.__init__ (both sides).
TargetSide == 224
\* img_array / 255.0
PixelScale == 255

\* validate_image_quality with the brightness check placed before the
\* resolution check.
validate_image_quality_brightness_first(img) ==
  IF ~img.lumaOk
  THEN << TRUE, "Could not validate image quality, proceeding anyway" >>
  ELSE IF img.mean < DarkLimit
  THEN << FALSE, "Image too dark. Please use better lighting." >>
  ELSE IF img.mean > BrightLimit
  THEN << FALSE, "Image too bright. Please reduce lighting." >>
  ELSE IF img.width < min_size \/ img.height < min_size
  THEN << FALSE, "Image too small. Minimum size: 100x100" >>
  ELSE IF ~img.lapOk
  THEN << TRUE, "Could not validate image quality, proceeding anyway" >>
  ELSE IF img.lapVar < BlurLimit
  THEN << FALSE, "Image appears blurry. Please take a clearer photo." >>
  ELSE << TRUE, "Image quality is acceptable" >>

\* validate_image_quality. The image is described by what the function
\* reads of it: width, height, whether image.convert('L') and the mean can be
\* computed and the mean, whether cv2.cvtColor / cv2.Laplacian can be computed
\* and the variance. Any exception lands in the except branch.
validate_image_quality(img) ==
  IF img.width < min_size \/ img.height < min_size
  THEN << FALSE, "Image too small. Minimum size: 100x100" >>
  ELSE IF ~img.lumaOk
  THEN << TRUE, "Could not validate image quality, proceeding anyway" >>
  ELSE IF img.mean < DarkLimit
  THEN << FALSE, "Image too dark. Please use better lighting." >>
  ELSE IF img.mean > BrightLimit
  THEN << FALSE, "Image too bright. Please reduce lighting." >>
  ELSE IF ~img.lapOk
  THEN << TRUE, "Could not validate image quality, proceeding anyway" >>
  ELSE IF img.lapVar < BlurLimit
  THEN << FALSE, "Image appears blurry. Please take a clearer photo." >>
  ELSE << TRUE, "Image quality is acceptable" >>

\* Bands of a PIL mode: the last axis of np.array(image), absent for 1.
Bands(mode) ==
  CASE mode \in {"1", "L", "P", "I", "F"} -> 1
    [] mode = "LA" -> 2
    [] mode \in {"RGB", "YCbCr"} -> 3
    [] OTHER -> 4

\* "Ensure 3 channels (RGB)": a 2-D array is stacked three times, a 4-channel
\* array loses its last channel, anything else is left as it is.
EnsureChannels(bands) ==
  IF bands = 1 THEN 3
  ELSE IF bands = 4 THEN 3
  ELSE bands

\* preprocess_image. An image is [width, height, mode, sample, loadable]:
\* sample is the value of its pixels (a uniform image keeps its value under
\* resampling), loadable is whether its pixel data can be read. The tensor
\* value is the numerator of sample / 255.0.
preprocess_image(image) ==
  IF ~image.loadable
  THEN [ ok |-> FALSE, error |-> "Failed to preprocess image" ]
  ELSE [ ok |-> TRUE,
         shape |-> << TargetSide, TargetSide, EnsureChannels(Bands(image.mode)) >>,
         value |-> image.sample ]

\* ------------------------------------------------------------ main.py

\* A content type is [present, text]: text is the header's characters;
\* present is FALSE for file.content_type = None.
Chars(present, text) == [ present |-> present, text |-> text ]

ContentTypes ==
  { Chars(FALSE, << >>),
    Chars(TRUE, << "i","m","a","g","e","/","p","n","g" >>),
    Chars(TRUE, << "i","m","a","g","e" >>),
    Chars(TRUE, << "t","e","x","t","/","p","l","a","i","n" >>) }

ImagePrefix == << "i","m","a","g","e","/" >>

\* str.startswith
StartsWith(s, prefix) ==
  /\ Len(s) >= Len(prefix)
  /\ SubSeq(s, 1, Len(prefix)) = prefix

\* file.content_type.startswith("image/")
IsImageType(ct) == StartsWith(ct.text, ImagePrefix)

\* What the uploaded bytes are to PIL: not an image at all (Image.open
\* raises), or an image of some mode whose pixel data can be read or not
\* (Image.open only reads the header; the pixel data is read by the first
\* operation that needs it).
NotImage == [ isImage |-> FALSE ]

Picture(mode, loadable) ==
  [ isImage |-> TRUE, mode |-> mode, loadable |-> loadable,
    width |-> 150, height |-> 150, sample |-> 128 ]

Uploads ==
  { NotImage } \cup
  { Picture(m, l) : m \in {"RGB", "RGBA"}, l \in BOOLEAN }

\* HTTPException(status_code, detail); detail is the pieces of the message.
HTTPError(status, detail) == [ status |-> status, detail |-> detail ]

\* The except branch of detect_disease: whatever was raised becomes a 500
\* whose detail is "Error processing image: " followed by str(e).
Caught(e) == HTTPError(500, << "Error processing image: ", e >>)

\* The raise of the content-type check: HTTPException(400) is raised inside
\* the try, and "except Exception" catches it like any other exception.
RejectType == Caught("400: File must be an image")

\* JSONResponse(content=response)
FormatResponse(prediction) ==
  [ status |-> 200,
    content |-> [ disease |-> prediction["disease"],
                  confidence |-> prediction["confidence"],
                  recommendations |-> prediction["recommendations"] ] ]

\* ------------------------------------------- DiseaseDetector.load_model

NoModel == [ kind |-> "none", id |-> 0, outLen |-> 0 ]

\* What loading meets: whether model_path exists, whether
\* tf.keras.models.load_model raises, the output length of the stored model,
\* and whether _create_demo_model raises in the try and in the except.
LoadEnvs ==
  [ exists : BOOLEAN, loadRaises : BOOLEAN, outLen : (NumClasses - 1)..(NumClasses + 1),
    demoRaises : BOOLEAN, demoRaisesAgain : BOOLEAN ]

\* load_model: [raised, kind, outLen]. The try loads the stored model or
\* builds the demo model; the except builds the demo model, and an exception
\* of that call leaves load_model.
load_model(env) ==
  IF env.exists /\ ~env.loadRaises
  THEN [ raised |-> FALSE, kind |-> "file", outLen |-> env.outLen ]
  ELSE IF ~env.exists /\ ~env.demoRaises
  THEN [ raised |-> FALSE, kind |-> "demo", outLen |-> NumClasses ]
  ELSE IF ~env.demoRaisesAgain
  THEN [ raised |-> FALSE, kind |-> "demo", outLen |-> NumClasses ]
  ELSE [ raised |-> TRUE, kind |-> "none", outLen |-> 0 ]

\* is_loaded
is_loaded(m) == m.kind # "none"

\* predict's lazy load with its guard dropped: every call loads.
NeedsLoadAlways(m) == TRUE

\* "if self.model is None" of predict.
NeedsLoad(m) == ~is_loaded(m)

\* ------------------------------------------------------------ event loop

\* An await that hands the loop to other requests, as if the inference were
\* awaited too.
SuspendsInference(point) == point \in {"file.read", "model.predict"}

\* Whether an await hands the event loop to other requests. file.read() is
\* an awaited I/O call; predict and load_model are coroutines that hold no
\* awaited I/O, and self.model.predict is an ordinary call, so the loop is
\* kept from the end of the read to the response.
Suspends(point) == point = "file.read"

\* ------------------------------------------------------------------ state

VARIABLES
  phase,     \* "startup" until startup_event has run, then "serving"
  model,     \* disease_detector.model: NoModel or a handle [kind, id, outLen]
  loads,     \* how many times self.model has been assigned
  running,   \* the request whose coroutine holds the event loop, or 0
  inflight,  \* how many self.model.predict calls have begun and not ended
  req,       \* per request: position, inputs, calls made, results
  arg,       \* the argument of a function applied on its own
  ret        \* its result

vars == << phase, model, loads, running, inflight, req, arg, ret >>

Requests == 1..NumRequests

NoArg == [ given |-> FALSE ]
NoRet == [ called |-> FALSE ]
NoPrediction == [ absent |-> TRUE ]
NoResponse == [ status |-> 0 ]
NoUpload == [ received |-> FALSE ]

NewRequest ==
  [ pc |-> "queued",
    ctype |-> Chars(FALSE, << >>),
    upload |-> NoUpload,
    image |-> NoUpload,
    tensor |-> NoRet,
    calls |-> << >>,
    loaded |-> FALSE,
    failed |-> "none",
    prediction |-> NoPrediction,
    response |-> NoResponse ]

Init ==
  /\ phase = "startup"
  /\ model = NoModel
  /\ loads = 0
  /\ running = 0
  /\ inflight = 0
  /\ req = [ r \in Requests |-> NewRequest ]
  /\ arg = NoArg
  /\ ret = NoRet

\* The coroutine of request r may take its next step: it holds the loop, or
\* nobody does. Requests are served once startup_event has run.
CanRun(r) == phase = "serving" /\ running \in {0, r}

\* Who holds the loop after request r passed the await named point.
After(r, point) == IF Suspends(point) THEN 0 ELSE r

\* The except branch as if it swallowed the exception and answered with the
\* fallback result.
FailSwallowed(r, log, e) ==
  /\ req' = [ req EXCEPT ![r].pc = "done", ![r].calls = log,
                         ![r].response = FormatResponse(FallbackResult) ]
  /\ running' = 0

\* The except branch of detect_disease for a request in flight: the request
\* ends with the 500 response; the loop is free again.
Fail(r, log, e) ==
  /\ req' = [ req EXCEPT ![r].pc = "done", ![r].calls = log,
                         ![r].response = Caught(e) ]
  /\ running' = 0

Handle(out) == [ kind |-> out.kind, id |-> loads + 1, outLen |-> out.outLen ]

\* startup_event: await disease_detector.load_model(); an exception is
\* logged and the server starts without a model.
startup_event ==
  /\ phase = "startup"
  /\ \E env \in LoadEnvs :
       LET out == load_model(env) IN
       IF out.raised
       THEN UNCHANGED << model, loads >>
       ELSE model' = Handle(out) /\ loads' = loads + 1
  /\ phase' = "serving"
  /\ UNCHANGED << running, inflight, req, arg, ret >>

\* detect_disease up to "contents = await file.read()": the content-type
\* check. A missing content type has no startswith (AttributeError).
Begin(r) ==
  /\ CanRun(r)
  /\ req[r].pc = "queued"
  /\ \E ct \in ContentTypes :
       IF ~ct.present
       THEN /\ req' = [ req EXCEPT ![r].pc = "done", ![r].ctype = ct,
                          ![r].response =
                            Caught("'NoneType' object has no attribute 'startswith'") ]
            /\ running' = 0
       ELSE IF ~IsImageType(ct)
       THEN /\ req' = [ req EXCEPT ![r].pc = "done", ![r].ctype = ct,
                          ![r].response = RejectType ]
            /\ running' = 0
       ELSE /\ req' = [ req EXCEPT ![r].pc = "reading", ![r].ctype = ct ]
            /\ running' = After(r, "file.read")
  /\ UNCHANGED << phase, model, loads, inflight, arg, ret >>

\* file.read() returns the uploaded bytes and the coroutine goes on.
ReadDone(r) ==
  /\ CanRun(r)
  /\ req[r].pc = "reading"
  /\ \E up \in Uploads :
       req' = [ req EXCEPT ![r].pc = "decode", ![r].upload = up ]
  /\ running' = r
  /\ UNCHANGED << phase, model, loads, inflight, arg, ret >>

\* Image.open(io.BytesIO(contents)) and the conversion to RGB.
Decode(r) ==
  /\ running = r
  /\ req[r].pc = "decode"
  /\ LET up == req[r].upload
         opened == Append(req[r].calls, "Image.open")
         converted == Append(opened, "convert")
     IN IF ~up.isImage
        THEN Fail(r, opened, "cannot identify image file")
        ELSE IF up.mode = "RGB"
        THEN /\ req' = [ req EXCEPT ![r].pc = "normalize", ![r].calls = opened,
                                    ![r].image = up ]
             /\ running' = r
        ELSE IF ~up.loadable
        THEN Fail(r, converted, "image file is truncated")
        ELSE /\ req' = [ req EXCEPT ![r].pc = "normalize", ![r].calls = converted,
                                    ![r].image = [ up EXCEPT !.mode = "RGB" ] ]
             /\ running' = r
  /\ UNCHANGED << phase, model, loads, inflight, arg, ret >>

\* processed_image = image_processor.preprocess_image(image)
Normalize(r) ==
  /\ running = r
  /\ req[r].pc = "normalize"
  /\ LET out == preprocess_image(req[r].image)
         log == Append(req[r].calls, "preprocess_image")
     IN IF ~out.ok
        THEN Fail(r, log, out.error)
        ELSE /\ req' = [ req EXCEPT ![r].pc = "predict", ![r].calls = log,
                                    ![r].tensor = out ]
             /\ running' = r
  /\ UNCHANGED << phase, model, loads, inflight, arg, ret >>

\* The head of predict: "if self.model is None: await self.load_model()".
\* It stands before the try, so an exception of load_model leaves predict
\* and is caught by detect_disease.
PredictEnter(r) ==
  /\ running = r
  /\ req[r].pc = "predict"
  /\ LET log == Append(req[r].calls, "predict") IN
     IF ~NeedsLoad(model)
     THEN /\ req' = [ req EXCEPT ![r].pc = "infer", ![r].calls = log ]
          /\ running' = After(r, "predict")
          /\ UNCHANGED << model, loads >>
     ELSE \E env \in LoadEnvs :
            LET out == load_model(env)
                loadlog == Append(log, "load_model")
            IN IF out.raised
               THEN /\ req' = [ req EXCEPT ![r].pc = "done", ![r].calls = loadlog,
                                  ![r].failed = "load",
                                  ![r].response = Caught("model could not be built") ]
                    /\ running' = 0
                    /\ UNCHANGED << model, loads >>
               ELSE /\ req' = [ req EXCEPT ![r].pc = "infer", ![r].calls = loadlog,
                                  ![r].loaded = TRUE ]
                    /\ running' = After(r, "load_model")
                    /\ model' = Handle(out)
                    /\ loads' = loads + 1
  /\ UNCHANGED << phase, inflight, arg, ret >>

\* self.model.predict(image, verbose=0) begins.
InferBegin(r) ==
  /\ CanRun(r)
  /\ req[r].pc = "infer"
  /\ req' = [ req EXCEPT ![r].pc = "inferring",
                         ![r].calls = Append(@, "model.predict") ]
  /\ inflight' = inflight + 1
  /\ running' = After(r, "model.predict")
  /\ UNCHANGED << phase, model, loads, arg, ret >>

\* One entry at level MaxProb, the others 0.
OneHot(len, k) == [ i \in 1..len |-> IF i = k THEN MaxProb ELSE 0 ]

\* The outputs the served model gives: a peak at the first entry, a peak at
\* the last, all entries equal.
ServingVectors(len) ==
  { OneHot(len, 1), OneHot(len, len), [ i \in 1..len |-> MaxProb ] }

\* self.model.predict ends (it raised or returned a vector); the rest of
\* predict and of detect_disease follows: the result dict, the response.
InferEnd(r) ==
  /\ CanRun(r)
  /\ req[r].pc = "inferring"
  /\ \E raised \in BOOLEAN, v \in ServingVectors(model.outLen) :
       LET out == PredictOutcome(raised, v) IN
       req' = [ req EXCEPT ![r].pc = "done",
                           ![r].failed = IF out = FallbackResult THEN "infer" ELSE "none",
                           ![r].prediction = out,
                           ![r].response = FormatResponse(out) ]
  /\ inflight' = inflight - 1
  /\ running' = 0
  /\ UNCHANGED << phase, model, loads, arg, ret >>

Next ==
  \/ startup_event
  \/ \E r \in Requests :
       \/ Begin(r)
       \/ ReadDone(r)
       \/ Decode(r)
       \/ Normalize(r)
       \/ PredictEnter(r)
       \/ InferBegin(r)
       \/ InferEnd(r)

Spec == Init /\ [][Next]_vars

\* -------------------------------------- functions applied on their own

Around(x) == (x - Margin)..(x + Margin)

\* Output vectors of a model with len outputs.
Vectors(len) == [ 1..len -> 0..MaxProb ]

PredictInputs ==
  { [ given |-> TRUE, raised |-> FALSE, v |-> v ] : v \in Vectors(NumClasses) }
  \cup { [ given |-> TRUE, raised |-> b, v |-> v ] :
           b \in BOOLEAN,
           v \in ServingVectors(NumClasses - 1) \cup ServingVectors(NumClasses)
                 \cup ServingVectors(NumClasses + 1) }

Sizes == Around(min_size) \cup {150}

QualityInputs ==
  [ given : {TRUE}, width : Sizes, height : Sizes,
    lumaOk : BOOLEAN, mean : Around(DarkLimit) \cup Around(BrightLimit),
    lapOk : BOOLEAN, lapVar : Around(BlurLimit) ]

Modes == { "1", "L", "P", "I", "LA", "RGB", "YCbCr", "RGBA", "CMYK" }

\* Pixel values a mode can hold: bilevel, 8-bit, or 32-bit integer.
SamplesOf(mode) ==
  CASE mode = "1" -> {0, 1}
    [] mode = "I" -> {-1, 0, PixelScale, PixelScale + 1}
    [] OTHER -> {0, 128, PixelScale}

NormalizeInputs ==
  UNION { [ given : {TRUE}, isImage : {TRUE}, mode : {m}, loadable : BOOLEAN,
            width : Around(TargetSide) \cup {1}, height : Around(TargetSide) \cup {1},
            sample : SamplesOf(m) ] : m \in Modes }

InitWith(inputs) ==
  /\ phase = "startup"
  /\ model = NoModel
  /\ loads = 0
  /\ running = 0
  /\ inflight = 0
  /\ req = [ r \in Requests |-> NewRequest ]
  /\ arg \in inputs
  /\ ret = NoRet

Return(value) ==
  /\ arg.given
  /\ ~ret.called
  /\ ret' = [ called |-> TRUE, value |-> value ]
  /\ UNCHANGED << phase, model, loads, running, inflight, req, arg >>

ApplyPredict == Return(PredictOutcome(arg.raised, arg.v))

ApplyQuality == Return(validate_image_quality(arg))

ApplyNormalize == Return(preprocess_image(arg))

SpecPredict == InitWith(PredictInputs) /\ [][ApplyPredict]_vars

SpecQuality == InitWith(QualityInputs) /\ [][ApplyQuality]_vars

SpecNormalize == InitWith(NormalizeInputs) /\ [][ApplyNormalize]_vars

\* ----------------------------------------------------------------- claims

Called(r, name) == \E i \in DOMAIN req[r].calls : req[r].calls[i] = name

Done(r) == req[r].pc = "done"

FourFields == { "disease", "confidence", "recommendations", "all_predictions" }

\* C1: whenever a request reached the classification step and the inference
\* failed (the model could not be loaded, or the model or the mapping of its
\* output raised), the request is answered with the fallback result
\* ("Analysis Failed", confidence 0, the three fixed recommendations) and not
\* with an error.
C1_InferenceFailureGivesFallback ==
  \A r \in Requests :
    (Done(r) /\ Called(r, "predict") /\ req[r].failed # "none")
      => req[r].response = FormatResponse(FallbackResult)

\* C2: every result predict returns, fallback included, has the four fields
\* disease, confidence, recommendations, all_predictions, and the fallback's
\* all_predictions is empty.
C2_ResultHasFourFields ==
  \A r \in Requests :
    req[r].prediction # NoPrediction
      => /\ DOMAIN req[r].prediction = FourFields
         /\ req[r].failed # "none"
              => DOMAIN req[r].prediction["all_predictions"] = {}

\* C3: when the model returns a vector of NumClasses entries, the disease is
\* the class name at the smallest index holding the maximum, the confidence
\* is that maximum, and all_predictions maps every class name to the entry
\* at its index.
C3_TopLabelIsFirstMaximum ==
  (ret.called /\ ~arg.raised /\ Len(arg.v) = Len(class_names))
    => LET v == arg.v
           res == ret.value
       IN /\ DOMAIN res = FourFields
          /\ \E k \in 1..Len(v) :
               /\ \A j \in 1..Len(v) : v[j] <= v[k]
               /\ \A j \in 1..(k - 1) : v[j] < v[k]
               /\ res.disease = class_names[k]
               /\ res.confidence = v[k]
          /\ DOMAIN res.all_predictions = ClassNameSet
          /\ \A i \in 1..Len(v) : res.all_predictions[class_names[i]] = v[i]

\* C3 witness: the maximum occurs twice, not at the first entry, and the
\* earlier of the two gives the disease.
C3_Witness ==
  /\ ret.called /\ ~arg.raised /\ Len(arg.v) = Len(class_names)
  /\ arg.v[1] < arg.v[2] /\ arg.v[2] = arg.v[5]
  /\ ret.value.disease = "Bacterial Spot"
  /\ ret.value.confidence = MaxProb

\* C4: a request that reached preprocess_image or the model has had
\* validate_image_quality run on its image before.
C4_QualityGateBeforeNormalizer ==
  \A r \in Requests :
    \A j \in DOMAIN req[r].calls :
      req[r].calls[j] \in {"preprocess_image", "predict", "model.predict"}
        => \E i \in 1..(j - 1) : req[r].calls[i] = "validate_image_quality"

\* What the decode step (Image.open, then convert for a non-RGB image) does
\* with an upload: it raises.
DecodeRaises(up) ==
  up # NoUpload /\ (~up.isImage \/ (up.mode # "RGB" /\ ~up.loadable))

C6_QualityGateOrder ==
  ret.called
    => LET sizeOk == arg.width >= 100 /\ arg.height >= 100
           notDark == arg.mean >= 30
           notBright == arg.mean <= 220
           sharp == arg.lapVar >= 100
           accepted == ret.value[1]
           reason == ret.value[2]
       IN /\ ~sizeOk
               => ~accepted /\ reason = "Image too small. Minimum size: 100x100"
          /\ (sizeOk /\ arg.lumaOk /\ ~notDark)
               => ~accepted /\ reason = "Image too dark. Please use better lighting."
          /\ (sizeOk /\ arg.lumaOk /\ ~notBright)
               => ~accepted /\ reason = "Image too bright. Please reduce lighting."
          /\ (sizeOk /\ arg.lumaOk /\ notDark /\ notBright /\ arg.lapOk /\ ~sharp)
               => ~accepted
                  /\ reason = "Image appears blurry. Please take a clearer photo."
          /\ (sizeOk /\ arg.lumaOk /\ notDark /\ notBright /\ arg.lapOk /\ sharp)
               => accepted /\ reason = "Image quality is acceptable"
          /\ (arg.lumaOk /\ arg.lapOk)
               => (accepted <=> (sizeOk /\ notDark /\ notBright /\ sharp))
          /\ (accepted /\ ~(arg.lumaOk /\ arg.lapOk))
               => reason = "Could not validate image quality, proceeding anyway"

\* C6 witness: a 99x150 image that is also too dark and blurry is rejected
\* for its size.
C6_Witness ==
  /\ ret.called /\ arg.lumaOk /\ arg.lapOk
  /\ arg.width = 99 /\ arg.height = 150
  /\ arg.mean < 30 /\ arg.lapVar < 100
  /\ ret.value = << FALSE, "Image too small. Minimum size: 100x100" >>

\* C7: for every image whose pixels can be read, whatever its size and
\* channel count, preprocess_image returns a tensor of shape (224, 224, 3)
\* with every value in [0, 1].
C7_TensorShapeAndRange ==
  (ret.called /\ arg.loadable)
    => /\ ret.value.ok
       /\ ret.value.shape = << 224, 224, 3 >>
       /\ 0 <= ret.value.value /\ ret.value.value <= 255

\* C8: at most one self.model.predict call is in flight at any time.
C8_OneInferenceInFlight == inflight <= 1

\* C8 witness: one request is inside self.model.predict while another has
\* begun and waits for its upload.
C8_Witness ==
  \E r, q \in Requests :
    /\ r # q
    /\ req[r].pc = "inferring"
    /\ req[q].pc = "reading"
    /\ inflight = 1

\* C9: once the model handle is set it is never replaced or reset, and it is
\* assigned at most once.
C9_ModelLoadedOnce ==
  [][ /\ is_loaded(model) => model' = model
      /\ loads' <= 1 ]_vars

\* C9 witness: startup left no model, one request loaded it on first use, and
\* another request then ran the model without loading.
C9_Witness ==
  \E r, q \in Requests :
    /\ r # q
    /\ req[r].loaded
    /\ Done(q) /\ Called(q, "model.predict") /\ ~req[q].loaded
    /\ model.id = 1

\* C10: a request whose content type does not start with "image/" is
\* answered with status 400 and detail "File must be an image", and nothing
\* is decoded, normalized or classified for it.
C10_NonImageTypeGets400 ==
  \A r \in Requests :
    (Done(r) /\ req[r].ctype.present
        /\ ~StartsWith(req[r].ctype.text, << "i","m","a","g","e","/" >>))
      => /\ req[r].response.status = 400
         /\ req[r].response.detail = << "File must be an image" >>
         /\ req[r].calls = << >>

====
